---- MODULE Spec2Model ----
(***************************************************************************)
(* Tic_Tac_Toe_5.py: a tabular Q-learning trainer (train_ai) that fills    *)
(* the global table Q by self-play, followed by the interactive session    *)
(* (TicTacToeGame) that plays greedily from Q.                             *)
(*                                                                         *)
(* A board is the list of lists of the source, indexed from 0; a state key *)
(* is the tuple of tuples board_to_tuple makes of it.  Q-values and the    *)
(* exploration rate are exact rationals <<numerator, denominator>>.        *)
(* The random source is bounded per specification: see randint.           *)
(***************************************************************************)
EXTENDS Integers, Sequences, FiniteSets, TLC

\* ------------------------------------------------------------ bounds ----
\* The source fixes BOARD_SIZE = 5; the model follows the same code on a
\* smaller square board.
BOARD_SIZE == 3
\* The largest `episodes` argument of train_ai that is followed.
MaxEpisodes == 3

\* --------------------------------------------------------- rationals ----
\* A rational is <<n, d>> with d > 0, in lowest terms. The arithmetic is
\* written as functions, which take their arguments by value.
Rats == Int \X Nat

gcd[a \in Nat, b \in Nat] == IF b = 0 THEN a ELSE gcd[b, a % b]

Abs(n) == IF n < 0 THEN 0 - n ELSE n

norm[n \in Int, d \in Nat] ==
    LET g == gcd[Abs(n), d]
    IN  <<n \div g, d \div g>>

ratadd[a \in Rats, b \in Rats] ==
    LET g == gcd[a[2], b[2]]
    IN  norm[a[1] * (b[2] \div g) + b[1] * (a[2] \div g), (a[2] \div g) * b[2]]

ratmul[a \in Rats, b \in Rats] ==
    LET g1 == gcd[Abs(a[1]), b[2]]
        g2 == gcd[Abs(b[1]), a[2]]
    IN  norm[(a[1] \div g1) * (b[1] \div g2), (a[2] \div g2) * (b[2] \div g1)]

Rat(n) == <<n, 1>>
RatAdd(a, b) == ratadd[a, b]
RatNeg(a) == <<0 - a[1], a[2]>>
RatSub(a, b) == ratadd[a, RatNeg(b)]
RatMul(a, b) == ratmul[a, b]
\* compared by the sign of the difference, which stays within TLC's integers
RatLess(a, b) == IF a[2] = b[2] THEN a[1] < b[1] ELSE ratadd[b, RatNeg(a)][1] > 0
RatLeq(a, b) == IF a[2] = b[2] THEN a[1] <= b[1] ELSE ratadd[b, RatNeg(a)][1] >= 0

\* --------------------------------------------------------- constants ----
EXPLORATION_RATE_0 == Rat(1)
EXPLORATION_DECAY == <<199, 200>>
LEARNING_RATE == <<1, 10>>
DISCOUNT_FACTOR == <<9, 10>>

Idx == 0 .. (BOARD_SIZE - 1)
Actions == 0 .. (BOARD_SIZE * BOARD_SIZE - 1)
Cell == {" ", "X", "O"}

EmptyBoard == [i \in Idx |-> [j \in Idx |-> " "]]
AllBoards == [Idx -> [Idx -> Cell]]

\* divmod(action, BOARD_SIZE)
RowOf(action) == action \div BOARD_SIZE
ColOf(action) == action % BOARD_SIZE

\* board[row][col] = mark
Place(b, row, col, mark) == [b EXCEPT ![row][col] = mark]

\* ------------------------------------------------------ pure functions --
board_to_tuple(b) ==
    [i \in 1 .. BOARD_SIZE |-> [j \in 1 .. BOARD_SIZE |-> b[i - 1][j - 1]]]

\* is_winner with the second test of line 77 left out.
IsWinnerNoAntiDiagonal(b, player) ==
    \/ \E i \in Idx : \/ \A j \in Idx : b[i][j] = player
                      \/ \A j \in Idx : b[j][i] = player
    \/ \A i \in Idx : b[i][i] = player

is_winner(b, player) ==
    \/ \E i \in Idx : \/ \A j \in Idx : b[i][j] = player
                      \/ \A j \in Idx : b[j][i] = player
    \/ \A i \in Idx : b[i][i] = player
    \/ \A i \in Idx : b[i][BOARD_SIZE - i - 1] = player

is_draw(b) == \A i \in Idx : \A j \in Idx : b[i][j] # " "

ZeroVector == [a \in Actions |-> Rat(0)]

\* np.argmax returning the last index that holds the maximum.
ArgmaxLast(v) ==
    CHOOSE i \in Actions :
        /\ \A j \in Actions : RatLeq(v[j], v[i])
        /\ \A j \in Actions : j > i => RatLess(v[j], v[i])

\* np.argmax: the first index that holds the maximum
argmax(v) ==
    CHOOSE i \in Actions :
        /\ \A j \in Actions : RatLeq(v[j], v[i])
        /\ \A j \in Actions : j < i => RatLess(v[j], v[i])

\* initialize_q_table with the test of line 55 left out.
InitializeOverwrites(Qt, b) ==
    LET s == board_to_tuple(b)
    IN  [k \in DOMAIN Qt \cup {s} |-> IF k = s THEN ZeroVector ELSE Qt[k]]

initialize_q_table(Qt, b) ==
    LET s == board_to_tuple(b)
    IN  IF s \notin DOMAIN Qt THEN Qt @@ (s :> ZeroVector) ELSE Qt

\* update_q_table without the discount on the next state's best value.
UpdateUndiscounted(Qt, s, a, reward, next_state) ==
    LET best_next_action == argmax(Qt[next_state])
        td_target == RatAdd(Rat(reward), Qt[next_state][best_next_action])
        td_error == RatSub(td_target, Qt[s][a])
    IN  [Qt EXCEPT ![s][a] = RatAdd(@, RatMul(LEARNING_RATE, td_error))]

update_q_table(Qt, s, a, reward, next_state) ==
    LET best_next_action == argmax(Qt[next_state])
        td_target == RatAdd(Rat(reward),
                            RatMul(DISCOUNT_FACTOR, Qt[next_state][best_next_action]))
        td_error == RatSub(td_target, Qt[s][a])
    IN  [Qt EXCEPT ![s][a] = RatAdd(@, RatMul(LEARNING_RATE, td_error))]

\* ------------------------------------------------------------- state ----
VARIABLES
    board_size,         \* the value the module constant BOARD_SIZE is set to (line 37)
    pc,                 \* where the program is: "for", "while", "main", "mainloop",
                        \* "crashed"; BoardSpec: "board", "evaluated"
    episodes,           \* the argument of train_ai
    episode,            \* the for loop's counter
    board,              \* the episode's board, then the session's self.board
    state,              \* train_ai's local state key
    done,               \* train_ai's local done
    current_player,     \* train_ai's local, then self.current_player
    action,             \* the action the last training turn selected (-1: none yet)
    EXPLORATION_RATE,   \* the global exploration rate
    Q,                  \* the global table: state key -> vector of action values
    transition,         \* the arguments of the last turn's update_q_table call (<<>>: no call)
    stream,             \* Spec: the order in which this episode's random draws land on cells
    human_symbol,       \* self.human_symbol
    ai_symbol,          \* self.ai_symbol
    message,            \* the message box the last handler showed ("": none)
    call,               \* the last session entry point and its arguments
    error,              \* the exception the program raised ("": none)
    result              \* BoardSpec: what the functions under test returned

vars == <<board_size, pc, episodes, episode, board, state, done, current_player, action,
          EXPLORATION_RATE, Q, transition, stream, human_symbol, ai_symbol,
          message, call, error, result>>

trainVars == <<episodes, episode, state, done, action, EXPLORATION_RATE, transition,
               stream>>
sessionVars == <<human_symbol, ai_symbol, message, call>>

\* ---------------------------------------------------------- training ----
\* Reward with the sign left out: +1 for whoever completes a line.
RewardForMover(b, player) ==
    IF is_winner(b, player) THEN 1 ELSE 0

\* The reward with the tests of lines 136 and 139 in the other order.
RewardDrawFirst(b, player) ==
    IF is_draw(b) THEN 0
    ELSE IF is_winner(b, player) THEN (IF player = "O" THEN 1 ELSE -1)
    ELSE 0

\* The reward of lines 133-141 for the board after the mover's mark.
Reward(b, player) ==
    IF is_winner(b, player) THEN (IF player = "O" THEN 1 ELSE -1)
    ELSE 0

\* done after lines 136-141
Terminal(b, player) == is_winner(b, player) \/ is_draw(b)

Other(player) == IF player = "O" THEN "X" ELSE "O"

\* lines 143-149, with the mark placed (board b1); x \in {e} names the value e
Learn(a, b1) ==
    \E reward \in {Reward(b1, current_player)},
       next_state \in {board_to_tuple(b1)},
       Q1 \in {initialize_q_table(Q, b1)} :
        /\ board' = b1
        /\ done' = Terminal(b1, current_player)
        /\ IF state \in DOMAIN Q1 /\ next_state \in DOMAIN Q1
           THEN /\ Q' = update_q_table(Q1, state, a, reward, next_state)
                /\ transition' = <<state, a, reward, next_state>>
                /\ state' = next_state
                /\ current_player' = Other(current_player)
                /\ error' = ""
                /\ pc' = "while"
           ELSE /\ Q' = Q1
                /\ transition' = <<>>
                /\ error' = "KeyError"
                /\ pc' = "crashed"
                /\ UNCHANGED <<state, current_player>>

\* The body with lines 143-149 outside the occupancy test: an occupied cell
\* still reaches update_q_table, with reward 0 and the state as its own successor.
TurnLearnsOnOccupied(a) ==
    /\ action' = a
    /\ IF board[RowOf(a)][ColOf(a)] = " "
       THEN \E b1 \in {Place(board, RowOf(a), ColOf(a), current_player)} : Learn(a, b1)
       ELSE /\ Q' = update_q_table(Q, state, a, 0, state)
            /\ transition' = <<state, a, 0, state>>
            /\ current_player' = Other(current_player)
            /\ UNCHANGED <<board, state, done, error, pc>>
    /\ UNCHANGED <<board_size, episodes, episode, EXPLORATION_RATE, stream, sessionVars, result>>

\* The body with line 149 outside the occupancy test: an occupied cell
\* passes the turn to the other label.
TurnPassesOnOccupied(a) ==
    /\ action' = a
    /\ IF board[RowOf(a)][ColOf(a)] = " "
       THEN \E b1 \in {Place(board, RowOf(a), ColOf(a), current_player)} : Learn(a, b1)
       ELSE /\ transition' = <<>>
            /\ current_player' = Other(current_player)
            /\ UNCHANGED <<board, state, done, Q, error, pc>>
    /\ UNCHANGED <<board_size, episodes, episode, EXPLORATION_RATE, stream, sessionVars, result>>

\* One pass of the while loop's body (lines 129-149) for the selected action a
Turn(a) ==
    /\ action' = a
    /\ IF board[RowOf(a)][ColOf(a)] = " "
       THEN \E b1 \in {Place(board, RowOf(a), ColOf(a), current_player)} : Learn(a, b1)
       ELSE /\ transition' = <<>>
            /\ UNCHANGED <<board, state, current_player, done, Q, error, pc>>
    /\ UNCHANGED <<board_size, episodes, episode, EXPLORATION_RATE, stream, sessionVars, result>>

IsEmpty(b, a) == b[RowOf(a)][ColOf(a)] = " "

\* The comparison of line 95 as <=: a rate below 1 never explores.
CanExploreAtFullRateOnly(rate) == RatLeq(Rat(1), rate)

\* The explore branch is taken when random.uniform(0, 1), a value in [0, 1),
\* is below the rate; the exploit branch otherwise.
CanExplore(rate) == RatLess(Rat(0), rate)
CanExploit(rate) == RatLess(rate, Rat(1))

\* lines 119-125: the for loop starts the next episode; s is the episode's stream
BeginEpisode(s) ==
    /\ pc = "for"
    /\ episode < episodes
    /\ board' = EmptyBoard
    /\ Q' = initialize_q_table(Q, EmptyBoard)
    /\ state' = board_to_tuple(EmptyBoard)
    /\ done' = FALSE
    /\ current_player' = "O"
    /\ stream' = s
    /\ pc' = "while"
    /\ UNCHANGED <<board_size, episodes, episode, action, EXPLORATION_RATE, transition,
                   sessionVars, error, result>>

\* The end of an episode with line 152 left out.
EndEpisodeNoDecay ==
    /\ pc = "while"
    /\ done
    /\ episode' = episode + 1
    /\ pc' = "for"
    /\ UNCHANGED <<board_size, episodes, board, state, done, current_player, action, Q,
                   EXPLORATION_RATE, transition, stream, sessionVars, error, result>>

\* line 152, after the while loop has ended
EndEpisode ==
    /\ pc = "while"
    /\ done
    /\ EXPLORATION_RATE' = RatMul(EXPLORATION_RATE, EXPLORATION_DECAY)
    /\ episode' = episode + 1
    /\ pc' = "for"
    /\ UNCHANGED <<board_size, episodes, board, state, done, current_player, action, Q,
                   transition, stream, sessionVars, error, result>>

\* train_ai returns to line 249
FinishTraining ==
    /\ pc = "for"
    /\ episode = episodes
    /\ pc' = "main"
    /\ UNCHANGED <<board_size, trainVars, board, current_player, Q, sessionVars, error, result>>

\* choose_action, exploit branch (line 98), and the body
Exploit ==
    /\ CanExploit(EXPLORATION_RATE)
    /\ IF state \in DOMAIN Q
       THEN Turn(argmax(Q[state]))
       ELSE /\ error' = "KeyError"
            /\ pc' = "crashed"
            /\ UNCHANGED <<board_size, trainVars, board, current_player, Q, sessionVars, result>>

\* choose_action, explore branch (line 96) with random.randint returning a, and the body
Explore(a) ==
    /\ CanExplore(EXPLORATION_RATE)
    /\ Turn(a)

\* The random source is followed on a bounded set of streams: an episode's
\* draws of random.randint land on the empty cells in one of these orders (O
\* wins in 5 moves, X wins in 6, a draw, O wins with the 9th mark, O wins in 5
\* with X answering on cell 0), or on any occupied cell.
Orders ==
    IF BOARD_SIZE = 3
    THEN { <<0, 3, 1, 4, 2, 5, 6, 7, 8>>,
           <<0, 3, 1, 4, 8, 5, 2, 6, 7>>,
           <<0, 1, 2, 4, 3, 5, 7, 6, 8>>,
           <<1, 2, 5, 3, 0, 6, 4, 7, 8>>,
           <<4, 0, 3, 1, 5, 2, 6, 7, 8>> }
    ELSE { [i \in 1 .. BOARD_SIZE * BOARD_SIZE |-> i - 1],
           [i \in 1 .. BOARD_SIZE * BOARD_SIZE |-> BOARD_SIZE * BOARD_SIZE - i] }

\* The first cell of the order s that is empty on b
FirstEmpty(s, b) ==
    LET k == CHOOSE k \in 1 .. Len(s) :
                 /\ IsEmpty(b, s[k])
                 /\ \A m \in 1 .. (k - 1) : ~IsEmpty(b, s[m])
    IN  s[k]

\* The outcomes of random.randint(0, BOARD_SIZE * BOARD_SIZE - 1) that are followed
randint(s, b) == {FirstEmpty(s, b)} \cup {a \in Actions : ~IsEmpty(b, a)}

\* An exploring turn without the test of line 127.
ExploreTurnAfterDone ==
    /\ pc = "while"
    /\ \E a \in randint(stream, board) : Explore(a)

\* A training turn (line 127: while not done) that explores
ExploreTurn ==
    /\ pc = "while"
    /\ ~done
    /\ \E a \in randint(stream, board) : Explore(a)

\* A training turn that exploits
GreedyTurn ==
    /\ pc = "while"
    /\ ~done
    /\ Exploit

StartEpisode == \E s \in Orders : BeginEpisode(s)

\* The program as train_ai(episodes) is called (line 247)
Init ==
    /\ board_size = BOARD_SIZE
    /\ pc = "for"
    /\ episodes \in 1 .. MaxEpisodes
    /\ episode = 0
    /\ board = EmptyBoard
    /\ state = <<>>
    /\ done = FALSE
    /\ current_player = "O"
    /\ action = -1
    /\ EXPLORATION_RATE = EXPLORATION_RATE_0
    /\ Q = <<>>
    /\ transition = <<>>
    /\ stream = <<>>
    /\ human_symbol = " "
    /\ ai_symbol = " "
    /\ message = ""
    /\ call = <<>>
    /\ error = ""
    /\ result = <<>>

Train ==
    \/ StartEpisode
    \/ ExploreTurn
    \/ GreedyTurn
    \/ EndEpisode
    \/ FinishTraining

\* ----------------------------------------------------------- session ----
\* g holds the game object's fields and what the handler has shown or raised:
\* [board, current_player, human_symbol, ai_symbol, message, error].
PlayerWins(symbol) == IF symbol = "X" THEN "Player X wins!" ELSE "Player O wins!"
AIWins(symbol) == IF symbol = "X" THEN "AI (X) wins!" ELSE "AI (O) wins!"
Draw == "It's a draw!"

RECURSIVE ai_move(_), end_game(_, _), reset_game(_)

\* ai_move with the occupancy test of line 211 left out.
AIMoveAnyCell(g) ==
    LET s == board_to_tuple(g.board)
    IN  IF s \notin DOMAIN Q
        THEN [g EXCEPT !.error = "KeyError"]
        ELSE LET a == argmax(Q[s])
                 g1 == [g EXCEPT !.board = Place(g.board, RowOf(a), ColOf(a), g.ai_symbol)]
             IN  IF is_winner(g1.board, g.ai_symbol)
                 THEN end_game(g1, AIWins(g.ai_symbol))
                 ELSE IF is_draw(g1.board)
                      THEN end_game(g1, Draw)
                      ELSE [g1 EXCEPT !.current_player = g.human_symbol]

\* lines 202-219; Q[state] raises KeyError for a key that is not in the table
ai_move(g) ==
    LET s == board_to_tuple(g.board)
    IN  IF s \notin DOMAIN Q
        THEN [g EXCEPT !.error = "KeyError"]
        ELSE LET a == argmax(Q[s])
                 row == RowOf(a)
                 col == ColOf(a)
             IN  IF g.board[row][col] = " "
                 THEN LET g1 == [g EXCEPT !.board = Place(g.board, row, col, g.ai_symbol)]
                      IN  IF is_winner(g1.board, g.ai_symbol)
                          THEN end_game(g1, AIWins(g.ai_symbol))
                          ELSE IF is_draw(g1.board)
                               THEN end_game(g1, Draw)
                               ELSE [g1 EXCEPT !.current_player = g.human_symbol]
                 ELSE g

\* end_game with line 228 left out.
EndGameNoReset(g, text) == [g EXCEPT !.message = text]

\* lines 222-228
end_game(g, text) == reset_game([g EXCEPT !.message = text])

\* reset_game with line 240 left out.
ResetKeepsMover(g) == [g EXCEPT !.board = EmptyBoard]

\* lines 231-242
reset_game(g) ==
    LET g1 == [g EXCEPT !.board = EmptyBoard, !.current_player = g.human_symbol]
    IN  IF g1.current_player = g1.ai_symbol THEN ai_move(g1) ELSE g1

\* make_move with the occupancy test of line 190 left out.
MakeMoveAnyCell(g, row, col) ==
    IF g.current_player = g.human_symbol
    THEN LET g1 == [g EXCEPT !.board = Place(g.board, row, col, g.human_symbol)]
         IN  IF is_winner(g1.board, g.human_symbol)
             THEN end_game(g1, PlayerWins(g.human_symbol))
             ELSE IF is_draw(g1.board)
                  THEN end_game(g1, Draw)
                  ELSE ai_move([g1 EXCEPT !.current_player = g.ai_symbol])
    ELSE g

\* lines 185-199
make_move(g, row, col) ==
    IF g.board[row][col] = " " /\ g.current_player = g.human_symbol
    THEN LET g1 == [g EXCEPT !.board = Place(g.board, row, col, g.human_symbol)]
         IN  IF is_winner(g1.board, g.human_symbol)
             THEN end_game(g1, PlayerWins(g.human_symbol))
             ELSE IF is_draw(g1.board)
                  THEN end_game(g1, Draw)
                  ELSE ai_move([g1 EXCEPT !.current_player = g.ai_symbol])
    ELSE g

\* lines 156-170
new_game(player_symbol, ai, human_starts) ==
    LET g == [board |-> EmptyBoard,
              current_player |-> IF human_starts THEN player_symbol ELSE ai,
              human_symbol |-> player_symbol, ai_symbol |-> ai,
              message |-> "", error |-> ""]
    IN  IF ~human_starts THEN ai_move(g) ELSE g

Game == [board |-> board, current_player |-> current_player,
         human_symbol |-> human_symbol, ai_symbol |-> ai_symbol,
         message |-> "", error |-> ""]

\* The handlers with an initialize_q_table call for the board they leave.
ReturnedWithEntry(g, entry) ==
    /\ board' = g.board
    /\ current_player' = g.current_player
    /\ human_symbol' = g.human_symbol
    /\ ai_symbol' = g.ai_symbol
    /\ message' = g.message
    /\ error' = g.error
    /\ call' = entry
    /\ pc' = IF g.error # "" /\ entry[1] = "__init__" THEN "crashed" ELSE "mainloop"
    /\ Q' = initialize_q_table(Q, g.board)
    /\ UNCHANGED <<board_size, trainVars, result>>

\* The session's fields after a constructor or handler has returned g. An
\* exception in the constructor ends the program; one in a click handler is
\* reported by Tk and the main loop goes on.
Returned(g, entry) ==
    /\ board' = g.board
    /\ current_player' = g.current_player
    /\ human_symbol' = g.human_symbol
    /\ ai_symbol' = g.ai_symbol
    /\ message' = g.message
    /\ error' = g.error
    /\ call' = entry
    /\ pc' = IF g.error # "" /\ entry[1] = "__init__" THEN "crashed" ELSE "mainloop"
    /\ UNCHANGED <<board_size, trainVars, Q, result>>

\* lines 253-262: game mode 1, the human's symbol and who starts are read
HumanVsAI ==
    /\ pc = "main"
    /\ \E symbol \in {"X", "O"}, human_starts \in BOOLEAN :
           Returned(new_game(symbol, IF symbol = "X" THEN "O" ELSE "X", human_starts),
                    <<"__init__", 1, human_starts>>)

\* lines 263-269: game mode 2
AIVsAI ==
    /\ pc = "main"
    /\ Returned(new_game("X", "O", FALSE), <<"__init__", 2, FALSE>>)

\* line 181: the button of cell (row, col) is clicked
Click ==
    /\ pc = "mainloop"
    /\ \E row \in Idx, col \in Idx :
           Returned(make_move(Game, row, col), <<"make_move", row, col>>)

Session ==
    \/ HumanVsAI
    \/ AIVsAI
    \/ Click

Next == Train \/ Session

Spec == Init /\ [][Next]_vars

\* Training alone, with the fairness its control flow and its random source
\* give: the loop keeps running (the program is single-threaded and nothing
\* blocks), and a turn that explores an empty cell, which every turn of an
\* unfinished episode takes with probability at least rate / BOARD_SIZE^2 > 0,
\* is eventually taken.
ExploreEmpty ==
    /\ pc = "while"
    /\ ~done
    /\ Explore(FirstEmpty(stream, board))

FairSpec ==
    /\ Init
    /\ [][Train]_vars
    /\ WF_vars(StartEpisode)
    /\ WF_vars(ExploreEmpty)
    /\ WF_vars(EndEpisode)
    /\ WF_vars(FinishTraining)

\* ------------------------------------------------- the board functions --
\* is_winner and is_draw applied to an arbitrary board
BoardInit ==
    /\ board_size = BOARD_SIZE
    /\ pc = "board"
    /\ board \in AllBoards
    /\ episodes = 0
    /\ episode = 0
    /\ state = <<>>
    /\ done = FALSE
    /\ current_player = "O"
    /\ action = -1
    /\ EXPLORATION_RATE = EXPLORATION_RATE_0
    /\ Q = <<>>
    /\ transition = <<>>
    /\ stream = <<>>
    /\ human_symbol = " "
    /\ ai_symbol = " "
    /\ message = ""
    /\ call = <<>>
    /\ error = ""
    /\ result = <<>>

Evaluate ==
    /\ pc = "board"
    /\ result' = [draw |-> is_draw(board),
                  winX |-> is_winner(board, "X"),
                  winO |-> is_winner(board, "O"),
                  key |-> board_to_tuple(board)]
    /\ pc' = "evaluated"
    /\ UNCHANGED <<board_size, trainVars, board, current_player, Q, sessionVars, error>>

BoardNext == Evaluate

BoardSpec == BoardInit /\ [][BoardNext]_vars

\* ------------------------------------------- a non-positive BOARD_SIZE --
\* train_ai as it runs when line 37 sets BOARD_SIZE to a value n <= 0. No
\* line of the module tests the constants, so the run starts like any other.
\* The smallest value followed is -MaxBadSize.
MaxBadSize == 4

ConfigInit ==
    /\ board_size \in (0 - MaxBadSize) .. 0
    /\ pc = "for"
    /\ episodes \in 1 .. MaxEpisodes
    /\ episode = 0
    /\ board = <<>>
    /\ state = <<>>
    /\ done = FALSE
    /\ current_player = "O"
    /\ action = -1
    /\ EXPLORATION_RATE = EXPLORATION_RATE_0
    /\ Q = <<>>
    /\ transition = <<>>
    /\ stream = <<>>
    /\ human_symbol = " "
    /\ ai_symbol = " "
    /\ message = ""
    /\ call = <<>>
    /\ error = ""
    /\ result = <<>>

\* lines 119-125: range(n) is empty, so the board is [] and its key is ();
\* np.zeros(n * n) has n * n elements
ConfigBeginEpisode ==
    /\ pc = "for"
    /\ episode < episodes
    /\ board' = <<>>
    /\ Q' = IF <<>> \in DOMAIN Q
            THEN Q
            ELSE Q @@ (<<>> :> [a \in 0 .. (board_size * board_size - 1) |-> Rat(0)])
    /\ state' = <<>>
    /\ done' = FALSE
    /\ current_player' = "O"
    /\ pc' = "while"
    /\ UNCHANGED <<board_size, episodes, episode, action, EXPLORATION_RATE, transition,
                   stream, sessionVars, error, result>>

\* lines 128-131 at the exploration rate 1.0, where choose_action explores:
\* random.randint(0, n * n - 1) raises ValueError on an empty range, and
\* board[row] raises IndexError on the empty board for whatever it returns
ConfigChooseAction ==
    /\ pc = "while"
    /\ ~done
    /\ CanExplore(EXPLORATION_RATE)
    /\ IF board_size * board_size - 1 < 0
       THEN /\ action' = action
            /\ error' = "ValueError"
       ELSE /\ action' \in 0 .. (board_size * board_size - 1)
            /\ error' = "IndexError"
    /\ pc' = "crashed"
    /\ UNCHANGED <<board_size, episodes, episode, board, state, done, current_player,
                   EXPLORATION_RATE, Q, transition, stream, sessionVars, result>>

ConfigNext ==
    \/ ConfigBeginEpisode
    \/ ConfigChooseAction

ConfigSpec == ConfigInit /\ [][ConfigNext]_vars

\* ------------------------------------------------------------ claims ----
Occupied(b, a) == ~IsEmpty(b, a)

\* The board a state key encodes
KeyBoard(s) == [i \in Idx |-> [j \in Idx |-> s[i + 1][j + 1]]]

\* A step of the while loop's body: a turn
TurnStep == pc = "while" /\ ~done /\ pc' = "while"

\* C1: a Value Table entry exists for every state key that choose_action,
\* update_q_table or ai_move reads or writes: no KeyError is ever raised, in
\* training or in interactive play.
C1_EntryExistsBeforeUse == error # "KeyError"

\* C2: an AI turn on a non-terminal board places exactly one AI mark and hands
\* the turn to the human (or ends the game), so whenever the session is idle
\* after a handler that raised nothing, the human is the one to move.
C2_IdleMeansHumanToMove ==
    (pc = "mainloop" /\ error = "") => current_player = human_symbol

\* C3: train_ai(episodes) terminates: every episode that has started reaches
\* a terminal board, and all episodes complete, also from the states in which
\* the greedy choice targets an occupied cell.
C3_TrainingTerminates ==
    /\ (pc = "while") ~> done
    /\ <>(pc = "main" /\ episode = episodes)

C3_GreedyTargetsOccupied ==
    /\ pc = "while"
    /\ ~done
    /\ CanExploit(EXPLORATION_RATE)
    /\ state \in DOMAIN Q
    /\ Occupied(board, argmax(Q[state]))
    /\ action = argmax(Q[state])
    /\ transition = <<>>

\* C4 as claimed: a training turn whose selected action targets an occupied
\* cell leaves board and state alone and still calls the Learner with
\* (state, action, 0, state).
C4_LearnerInvokedOnOccupied ==
    [][(TurnStep /\ Occupied(board, action'))
         => /\ board' = board
            /\ state' = state
            /\ transition' = <<state, action', 0, state>>]_vars

\* C4 as amended: a training turn whose selected action targets an occupied
\* cell changes nothing but the selected action: board, state, mover, done
\* and the whole Value Table stay as they are, and update_q_table is not
\* called in that turn.
C4_OccupiedTurnIsSkipped ==
    [][(TurnStep /\ Occupied(board, action'))
         => /\ board' = board
            /\ state' = state
            /\ current_player' = current_player
            /\ done' = done
            /\ Q' = Q
            /\ transition' = <<>>]_vars

C4_OccupiedSelected ==
    /\ pc = "while"
    /\ ~done
    /\ action \in Actions
    /\ Occupied(board, action)
    /\ transition = <<>>

\* C5: is_draw(board) is true iff the board is full and is_winner(board, p) is
\* false for both players.
C5_DrawIffFullAndNoWinner ==
    pc = "evaluated"
      => (result.draw <=> (/\ \A i \in Idx : \A j \in Idx : board[i][j] # " "
                           /\ ~result.winX
                           /\ ~result.winO))

C7_InvalidClickIgnored ==
    [][\A row \in Idx, col \in Idx :
         (/\ pc = "mainloop"
          /\ call' = <<"make_move", row, col>>
          /\ (board[row][col] # " " \/ current_player # human_symbol))
           => /\ board' = board
              /\ current_player' = current_player
              /\ Q' = Q
              /\ message' = ""
              /\ error' = ""]_vars

C7_ClickedOnAIMark ==
    /\ pc = "mainloop"
    /\ Len(call) = 3
    /\ call[1] = "make_move"
    /\ board[call[2]][call[3]] = ai_symbol
    /\ current_player = human_symbol

\* C8: the reward handed to the Learner is +1 when the resulting board holds a
\* full line of 'O', -1 when it holds a full line of 'X', and 0 otherwise
\* (a non-terminal move, a draw).
C8_RewardByLabel ==
    transition # <<>>
      => LET b == KeyBoard(transition[4])
         IN  transition[3] = IF is_winner(b, "O") THEN 1
                             ELSE IF is_winner(b, "X") THEN -1
                             ELSE 0

C8_XWinRewarded ==
    /\ transition # <<>>
    /\ is_winner(KeyBoard(transition[4]), "X")
    /\ transition[3] = -1

RECURSIVE RatPow(_, _)
RatPow(a, n) == IF n = 0 THEN Rat(1) ELSE RatMul(a, RatPow(a, n - 1))

\* C9: the exploration rate is the initial rate times the decay factor once
\* per completed episode; it changes only in the step that ends an episode,
\* never during a turn, and it never grows nor goes below zero.
C9_DecayOncePerEpisode ==
    /\ [](EXPLORATION_RATE = RatMul(EXPLORATION_RATE_0, RatPow(EXPLORATION_DECAY, episode)))
    /\ [][/\ (EXPLORATION_RATE' # EXPLORATION_RATE
                => (pc = "while" /\ done /\ episode' = episode + 1))
          /\ RatLeq(EXPLORATION_RATE', EXPLORATION_RATE)
          /\ RatLeq(Rat(0), EXPLORATION_RATE')]_vars

C9_SecondEpisodeSkippedTurn ==
    /\ pc = "while"
    /\ episode >= 1
    /\ RatLess(EXPLORATION_RATE, Rat(1))
    /\ action \in Actions
    /\ transition = <<>>

\* The largest value of a vector
MaxValue(v) == CHOOSE x \in {v[a] : a \in Actions} : \A a \in Actions : RatLeq(v[a], x)

\* The table as update_q_table found it in a turn: Q with the entry that
\* initialize_q_table added for the resulting board
TableAtUpdate(next_state) ==
    IF next_state \in DOMAIN Q THEN Q ELSE Q @@ (next_state :> ZeroVector)

\* C10: update_q_table(state, action, reward, next_state) sets
\* Q[state][action] to old + 0.1 * (reward + 0.9 * max(Q[next_state]) - old)
\* and changes no other value of the table.
C10_UpdateRule ==
    [][(TurnStep /\ board' # board /\ transition' # <<>>)
         => LET s == transition'[1]
                a == transition'[2]
                ns == transition'[4]
                T == TableAtUpdate(ns)
                old == T[s][a]
                target == RatAdd(Rat(transition'[3]),
                                 RatMul(DISCOUNT_FACTOR, MaxValue(T[ns])))
            IN  /\ DOMAIN Q' = DOMAIN T
                /\ Q'[s][a] = RatAdd(old, RatMul(LEARNING_RATE, RatSub(target, old)))
                /\ \A k \in DOMAIN T : \A b \in Actions :
                       (k # s \/ b # a) => Q'[k][b] = T[k][b]]_vars

C10_BootstrappedUpdate ==
    /\ transition # <<>>
    /\ transition[3] = 0
    /\ Q[transition[1]][transition[2]] # Rat(0)

\* The number of cells of b that hold mark
Count(b, mark) == Cardinality({a \in Actions : b[RowOf(a)][ColOf(a)] = mark})

\* C11: during interactive play the Value Table is read-only: no constructor
\* call and no click (make_move, ai_move, end_game, reset_game) adds, removes
\* or modifies an entry of Q, also when ai_move looks up a key that is absent.
C11_TableFrozenInPlay ==
    [][(pc \in {"main", "mainloop"}) => Q' = Q]_vars

C11_AIAnsweredFromTable ==
    /\ pc = "mainloop"
    /\ Len(call) = 3
    /\ call[1] = "make_move"
    /\ error = ""
    /\ message = ""
    /\ Count(board, ai_symbol) >= 2
    /\ board_to_tuple(board) \notin DOMAIN Q

\* The label that moves on board b in training ('O' moves first)
MoverOn(b) == IF Count(b, "O") = Count(b, "X") THEN "O" ELSE "X"

Full(b) == \A a \in Actions : ~IsEmpty(b, a)

Lines ==
    {{<<i, j>> : j \in Idx} : i \in Idx}
      \cup {{<<i, j>> : i \in Idx} : j \in Idx}
      \cup {{<<i, i>> : i \in Idx}, {<<i, BOARD_SIZE - 1 - i>> : i \in Idx}}

HasLine(b, mark) == \E l \in Lines : \A c \in l : b[c[1]][c[2]] = mark

\* C13: for every board and player mark, is_winner(board, player) is true iff
\* all BOARD_SIZE cells of some row, some column, the main diagonal or the
\* anti-diagonal hold that mark; a line that is partly filled or holds mixed
\* marks does not count.
C13_WinnerIffFullLine ==
    pc = "evaluated"
      => /\ result.winX <=> HasLine(board, "X")
         /\ result.winO <=> HasLine(board, "O")

C13_OnlyAntiDiagonal ==
    /\ pc = "evaluated"
    /\ result.winO
    /\ ~result.winX
    /\ \A i \in Idx : board[i][BOARD_SIZE - 1 - i] = "O"
    /\ Count(board, "O") = BOARD_SIZE
    /\ \E a \in Actions : board[RowOf(a)][ColOf(a)] = " "
    /\ \E i \in Idx : \E j \in Idx \ {i} : board[i][i] = "X" /\ board[j][j] = "O"

\* The lowest index at which v holds its largest value
LowestMaxIndex(v) ==
    CHOOSE i \in Actions :
        /\ v[i] = MaxValue(v)
        /\ \A j \in 0 .. (i - 1) : v[j] # MaxValue(v)

PlaceAt(b, a, mark) == Place(b, RowOf(a), ColOf(a), mark)

\* C14: the greedy action for a state is the lowest index that holds the
\* maximum of the state's entry (index 0 for an all-zero entry): a training
\* turn that exploits selects it, the AI's opening move is on it, and the AI's
\* answer to a click is on it.
C14_GreedyIsLowestMaxIndex ==
    [][/\ GreedyTurn => action' = LowestMaxIndex(Q[state])
       /\ (pc = "main" /\ pc' = "mainloop" /\ board' # EmptyBoard)
            => board' = PlaceAt(EmptyBoard,
                                LowestMaxIndex(Q[board_to_tuple(EmptyBoard)]),
                                ai_symbol')
       /\ \A row \in Idx, col \in Idx :
              (/\ pc = "mainloop"
               /\ call' = <<"make_move", row, col>>
               /\ board[row][col] = " "
               /\ current_player = human_symbol
               /\ message' = ""
               /\ error' = ""
               /\ current_player' = human_symbol)
                => LET b1 == Place(board, row, col, human_symbol)
                   IN  board' = PlaceAt(b1, LowestMaxIndex(Q[board_to_tuple(b1)]),
                                        ai_symbol)]_vars

\* The AI opened on index 0 from an all-zero entry and answered a click on a
\* higher index that holds a learned value
C14_TieThenLearnedValue ==
    /\ pc = "mainloop"
    /\ Len(call) = 3
    /\ call[1] = "make_move"
    /\ message = ""
    /\ error = ""
    /\ current_player = human_symbol
    /\ board[0][0] = ai_symbol
    /\ Count(board, ai_symbol) = 2
    /\ Count(board, human_symbol) = 2
    /\ \E a \in Actions \ {0}, h \in Actions :
           /\ board[RowOf(a)][ColOf(a)] = ai_symbol
           /\ board[RowOf(h)][ColOf(h)] = human_symbol
           /\ board_to_tuple(PlaceAt(EmptyBoard, h, human_symbol)) \in DOMAIN Q
           /\ Q[board_to_tuple(PlaceAt(EmptyBoard, h, human_symbol))] = ZeroVector
           /\ LET prev == PlaceAt(board, a, " ")
              IN  /\ board_to_tuple(prev) \in DOMAIN Q
                  /\ RatLess(Rat(0), Q[board_to_tuple(prev)][a])

\* C15: the Value Table only grows during training: no step removes a key, a
\* key that is added starts as the all-zero vector, and an entry that exists
\* keeps its values through initialize_q_table (at the start of an episode
\* and when a turn reaches a board seen before); the only value a step
\* changes is the one of the turn's own update.
C15_TableOnlyGrows ==
    [][(pc \in {"for", "while"})
         => /\ DOMAIN Q \subseteq DOMAIN Q'
            /\ \A k \in DOMAIN Q' \ DOMAIN Q : Q'[k] = ZeroVector
            /\ \A k \in DOMAIN Q :
                   \/ Q'[k] = Q[k]
                   \/ /\ TurnStep
                      /\ transition' # <<>>
                      /\ k = transition'[1]
                      /\ \A a \in Actions \ {transition'[2]} : Q'[k][a] = Q[k][a]]_vars

\* A turn has reached a board whose entry held a learned value
C15_RevisitedLearnedEntry ==
    /\ pc = "while"
    /\ ~done
    /\ episode >= 1
    /\ transition # <<>>
    /\ transition[4] = state
    /\ state # board_to_tuple(EmptyBoard)
    /\ Q[state] # ZeroVector

\* The cells on which two boards differ
Changed(b1, b2) == {a \in Actions : b1[RowOf(a)][ColOf(a)] # b2[RowOf(a)][ColOf(a)]}

\* C16: a mark is only written to a cell that is empty at that moment. A
\* training turn changes no occupied cell and changes exactly one cell when
\* it applies a move (none when it skips); a click either ends the game (the
\* board is reset) or changes no occupied cell: an accepted click writes
\* the human's mark on the clicked cell and, when the AI answers, one AI mark
\* on one other cell, and nothing else.
C16_OnlyEmptyCellsWritten ==
    [][/\ TurnStep
            => /\ \A a \in Actions : Occupied(board, a) => a \notin Changed(board, board')
               /\ Cardinality(Changed(board, board'))
                     = IF transition' # <<>> THEN 1 ELSE 0
               /\ \A a \in Changed(board, board') :
                      a = action' /\ board'[RowOf(a)][ColOf(a)] = current_player
       /\ pc = "mainloop"
            => \/ message' # "" /\ board' = EmptyBoard
               \/ /\ message' = ""
                  /\ \A a \in Actions : Occupied(board, a) => a \notin Changed(board, board')
                  /\ \A a \in Changed(board, board') :
                         \/ /\ board'[RowOf(a)][ColOf(a)] = human_symbol
                            /\ call' = <<"make_move", RowOf(a), ColOf(a)>>
                         \/ board'[RowOf(a)][ColOf(a)] = ai_symbol
                  /\ \A row \in Idx, col \in Idx :
                         (/\ call' = <<"make_move", row, col>>
                          /\ board[row][col] = " "
                          /\ current_player = human_symbol)
                           => /\ board'[row][col] = human_symbol
                              /\ Cardinality(Changed(board, board'))
                                    = IF current_player' = human_symbol THEN 2 ELSE 1]_vars

\* The AI's greedy action aimed at the human's mark, which stayed
C16_AIAimedAtHumanMark ==
    /\ pc = "mainloop"
    /\ error = ""
    /\ current_player = ai_symbol
    /\ board_to_tuple(board) \in DOMAIN Q
    /\ board[RowOf(argmax(Q[board_to_tuple(board)]))][ColOf(argmax(Q[board_to_tuple(board)]))]
         = human_symbol

\* C17: an invalid training configuration (a non-positive board size) is
\* detected at start and reported as a configuration error before any episode
\* runs and before the Value Table is touched: with such a size the program
\* never enters an episode, never adds to Q, and raises nothing but the
\* configuration error.
C17_InvalidConfigurationRejected ==
    board_size <= 0
      => /\ pc # "while"
         /\ Q = <<>>
         /\ error \in {"", "ConfigurationError"}

\* A board on which a line is complete or no cell is empty
TerminalBoard(b) == HasLine(b, "X") \/ HasLine(b, "O") \/ Full(b)

\* C18: once an episode's board is terminal (win or draw) no further action
\* is selected, applied or learned from in that episode: the only step is
\* the one that ends the episode. update_q_table is never called with a
\* terminal board as its source state, and the entry of every terminal board
\* is all-zero throughout.
C18_NothingAfterTerminal ==
    /\ [](transition # <<>> => ~TerminalBoard(KeyBoard(transition[1])))
    /\ [](\A k \in DOMAIN Q : TerminalBoard(KeyBoard(k)) => Q[k] = ZeroVector)
    /\ []((pc = "while") => (done <=> TerminalBoard(board)))
    /\ [][(pc = "while" /\ done)
             => /\ pc' = "for"
                /\ episode' = episode + 1
                /\ board' = board
                /\ state' = state
                /\ action' = action
                /\ transition' = transition
                /\ Q' = Q]_vars

\* A later episode has ended on a terminal board that an earlier one ended on
C18_TerminalReachedAgain ==
    /\ pc = "while"
    /\ done
    /\ episode >= 1
    /\ transition # <<>>
    /\ transition[4] = state
    /\ state = board_to_tuple(board)
    /\ TerminalBoard(board)
    /\ \E k \in DOMAIN Q :
           /\ k # state
           /\ TerminalBoard(KeyBoard(k))
           /\ Q[k] = ZeroVector
    /\ Q[transition[1]][transition[2]] # Rat(0)

\* C19: at every point of a training episode the number of 'O' marks minus
\* the number of 'X' marks on the board is 0 or 1, and current_player is 'O'
\* exactly when the two numbers are equal; a turn that selects an occupied
\* cell leaves current_player as it is.
C19_MarksAlternate ==
    /\ []((pc = "while")
            => /\ Count(board, "O") - Count(board, "X") \in {0, 1}
               /\ current_player = "O" <=> Count(board, "O") = Count(board, "X"))
    /\ [][(TurnStep /\ Occupied(board, action'))
             => current_player' = current_player]_vars

\* 'X' is to move and the last selection was an occupied cell
C19_XKeptTheTurn ==
    /\ pc = "while"
    /\ ~done
    /\ current_player = "X"
    /\ Count(board, "O") = Count(board, "X") + 1
    /\ Count(board, "X") >= 1
    /\ action \in Actions
    /\ Occupied(board, action)
    /\ transition = <<>>

\* C20: whenever the interactive session is idle (the constructor or a click
\* handler has returned) the board holds no complete line for either mark
\* and has at least one empty cell: a terminal position is reset before the
\* handler returns.
C20_IdleBoardNotTerminal ==
    (pc = "mainloop")
      => /\ ~HasLine(board, "X")
         /\ ~HasLine(board, "O")
         /\ \E a \in Actions : IsEmpty(board, a)

\* The human's mark completed a line and the handler returned
C20_HumanWonAndBoardReset ==
    /\ pc = "mainloop"
    /\ message = PlayerWins(human_symbol)
    /\ Len(call) = 3
    /\ call[1] = "make_move"
    /\ board = EmptyBoard

====
